---- MODULE Spec2Model ----
(***************************************************************************)
(* AkariNet Audio Console v3.3 (src/audioConsole-3.3.0.js): the wake       *)
(* trigger tracker, the speech segment classifier (_handleSpeech), the     *)
(* ASR hand-off (_transcribeAndParse) and the command extractor (_parse),  *)
(* as callbacks interleaving on one event loop.                            *)
(*                                                                         *)
(* Time is Date.now() in milliseconds.  Audio is a buffer of samples at    *)
(* 16 kHz, modelled by its length and by how many leading samples were     *)
(* sliced off.  Scores are hundredths (0.75 is 75).  Strings are           *)
(* sequences of one-character strings.                                     *)
(***************************************************************************)
EXTENDS Integers, Sequences, FiniteSets, TLC

VARIABLES
    now,                    \* Date.now()
    config,                 \* this.config, fixed by the constructor
    wakeSoundDetectedTime,  \* this.wakeSoundDetectedTime (Null is null)
    lastWakeSoundScore,     \* this.lastWakeSoundScore
    speechStartTime,        \* this.speechStartTime
    listening,              \* the recognizer exists and is listening
    vadState,               \* "idle", "speaking" or "paused"
    seg,                    \* one record per _handleSpeech run
    nextSeg,                \* index of the next segment the VAD delivers
    utterances,             \* how many segments the speaker utters in this run
    wakesound,              \* the wakesound event the last step dispatched, if any
    destroyed               \* destroy() has been called

vars == <<now, config, wakeSoundDetectedTime, lastWakeSoundScore,
          speechStartTime, listening, vadState, seg, nextSeg, utterances,
          wakesound, destroyed>>

----------------------------------------------------------------------------
(* Bounds of the model *)

\* the clock advances in steps of ClockStep ms, at most MaxTicks times
ClockStep == 100
MaxTicks == 7
\* number of speech segments the VAD delivers
NumSeg == 2
\* a transcription is at most MaxTokens tokens long
MaxTokens == 3
\* with scheduling, wake sounds and utterances begin within LiveTicks clock steps
LiveTicks == 3

(* Program constants *)

Null == 0                 \* null; JS treats it as falsy and as 0 in arithmetic
StartTime == 1000         \* Date.now() when the engine is ready (any value > 0)
MinSamples == 2000
MaxSyncWait == 600
PollInterval == 50
SampleRate == 16000
ScoreCeiling == 162       \* 1.62
DefaultThreshold == 75    \* 0.75
DefaultDelay == 0

----------------------------------------------------------------------------
(* Strings *)

UpperChars == <<"A","B","C","D","E","F","G","H","I","J","K","L","M",
                "N","O","P","Q","R","S","T","U","V","W","X","Y","Z">>
LowerChars == <<"a","b","c","d","e","f","g","h","i","j","k","l","m",
                "n","o","p","q","r","s","t","u","v","w","x","y","z">>
Digits == {"0","1","2","3","4","5","6","7","8","9"}
SpaceChars == {" ", "\t"}
KeptSymbols == {"+", "-", "*", "/", "(", ")", "."}

CharIn(c, chars) == \E i \in 1..Len(chars) : chars[i] = c
CharPos(c, chars) == CHOOSE i \in 1..Len(chars) : chars[i] = c

LowerChar(c) == IF CharIn(c, UpperChars) THEN LowerChars[CharPos(c, UpperChars)] ELSE c
UpperChar(c) == IF CharIn(c, LowerChars) THEN UpperChars[CharPos(c, LowerChars)] ELSE c

ToLowerCase(s) == [i \in 1..Len(s) |-> LowerChar(s[i])]
ToUpperCase(s) == [i \in 1..Len(s) |-> UpperChar(s[i])]

\* s.indexOf(w): the 0-based position of the first occurrence, or -1
OccursAt(s, w, i) == /\ i + Len(w) <= Len(s)
                     /\ \A k \in 1..Len(w) : s[i + k] = w[k]
IndexOf(s, w) ==
    IF \E i \in 0..Len(s) : OccursAt(s, w, i)
    THEN CHOOSE i \in 0..Len(s) :
            /\ OccursAt(s, w, i)
            /\ \A j \in 0..(i - 1) : ~OccursAt(s, w, j)
    ELSE -1

\* s.substring(from): from is clamped to 0..s.length
Substring(s, from) ==
    LET f == IF from < 0 THEN 0 ELSE IF from > Len(s) THEN Len(s) ELSE from
    IN  SubSeq(s, f + 1, Len(s))

\* s.trim()
RECURSIVE TrimLeft(_)
TrimLeft(s) == IF s # <<>> /\ Head(s) \in SpaceChars THEN TrimLeft(Tail(s)) ELSE s
RECURSIVE TrimRight(_)
TrimRight(s) == IF s # <<>> /\ s[Len(s)] \in SpaceChars
                THEN TrimRight(SubSeq(s, 1, Len(s) - 1)) ELSE s
Trim(s) == TrimRight(TrimLeft(s))

\* \w and the characters the cleanup keeps: [\w\s\+\-\*\/\(\)\.]
IsWordChar(c) == CharIn(c, UpperChars) \/ CharIn(c, LowerChars) \/ c \in Digits \/ c = "_"
IsKept(c) == IsWordChar(c) \/ c \in SpaceChars \/ c \in KeptSymbols

\* .replace(/[^\w\s\+\-\*\/\(\)\.]/g, ' ')
ReplaceOthers(s) == [i \in 1..Len(s) |-> IF IsKept(s[i]) THEN s[i] ELSE " "]
\* .replace(/\s+/g, ' ')
RECURSIVE CollapseSpaces(_)
CollapseSpaces(s) ==
    IF s = <<>> THEN <<>>
    ELSE IF Head(s) \in SpaceChars
         THEN <<" ">> \o CollapseSpaces(TrimLeft(s))
         ELSE <<Head(s)>> \o CollapseSpaces(Tail(s))
\* variant: trims before the replacements instead of after them
Cleanup_TrimFirst(s) == CollapseSpaces(ReplaceOthers(Trim(s)))
Cleanup(s) == Trim(CollapseSpaces(ReplaceOthers(s)))

----------------------------------------------------------------------------
(* Configuration: the inputs the model draws from *)

\* a || b on numbers: 0 (like undefined) is falsy
OrDefault(v, d) == IF v = 0 THEN d ELSE v

Wakewords == { <<>>,
               << <<"O","k">> >>,
               << <<"o","k">>, <<"h","i">> >> }
RawThresholds == {0, 80}
RawDelays == {0, 200, 1000}

\* the constructor
Constructor(raw) ==
    [ wakewords          |-> raw.wakewords,
      wakesoundThreshold |-> OrDefault(raw.wakesoundThreshold, DefaultThreshold),
      wakesoundDelay     |-> OrDefault(raw.wakesoundDelay, DefaultDelay),
      cleanup            |-> raw.cleanup,
      debugWakeSound     |-> raw.debugWakeSound,
      requireWakeSound   |-> raw.requireWakeSound ]

RawConfigs ==
    [ wakewords : Wakewords, wakesoundThreshold : RawThresholds,
      wakesoundDelay : RawDelays, cleanup : BOOLEAN,
      debugWakeSound : BOOLEAN, requireWakeSound : BOOLEAN ]

\* the configurations explored: every setting of the timing options with the
\* default text options, and every setting of the text options with one timing
TimingDefault(raw) == raw.wakesoundThreshold = 80 /\ raw.wakesoundDelay = 1000
                      /\ ~raw.requireWakeSound
TextDefault(raw) == raw.wakewords = << <<"o","k">>, <<"h","i">> >> /\ raw.cleanup
                    /\ ~raw.debugWakeSound
Configs == {Constructor(raw) : raw \in {c \in RawConfigs : TimingDefault(c) \/ TextDefault(c)}}
\* the configurations under which more than one utterance is explored: every
\* wakesoundDelay and requireWakeSound
OverlapConfigs == {c \in Configs : c.wakesoundThreshold = 80 /\ c.cleanup
                                    /\ ~c.debugWakeSound /\ Len(c.wakewords) = 2}

\* scores[wakesoundIndex] as the recognizer reports it, in hundredths
Scores == {75, 80, 161, 162, 190}
\* audio.length of the segments the VAD delivers
AudioLengths == {1999, 2000, 3200}
\* what the ASR pipeline returns as text; <<>> is the empty string
AsrTexts == { <<>>,
              <<"g","o">>,
              <<"H","i"," ","O","K"," ","G","o","!">> }

----------------------------------------------------------------------------
(* Events *)

\* an event's detail is a record: a literal string, a recognised text, or the
\* fields of a result / wakesound detail
Event(type, detail) == [type |-> type, detail |-> detail]
Lit(str) == [literal |-> str]
Raw(chars) == [string |-> chars]

AudioTooShort == Lit("(Audio Too Short)")
WaitingForWakeSound == Lit("(Waiting for Wake Sound)")
EmptyRecognition == Lit("(Empty Recognition)")
NoWakeWordDetected == Lit("(No Wake Word Detected)")
VADMisfireDetail == Lit("(VAD Misfire)")
AsrFail == Lit("ASR Fail: ")
NoEvent == Event("none", Lit(""))

----------------------------------------------------------------------------
(* _parse(raw, wakeSoundDetected) *)

\* variant: the configured word that occurs earliest in the text
FirstMatch_ByPosition(lower, words, k) ==
    LET hits == {h \in k..Len(words) : IndexOf(lower, ToLowerCase(words[h])) # -1}
    IN  IF hits = {} THEN 0
        ELSE CHOOSE h \in hits :
                \A j \in hits : IndexOf(lower, ToLowerCase(words[h]))
                                    <= IndexOf(lower, ToLowerCase(words[j]))

\* the first configured word that occurs in lower, as an index into words, or 0
RECURSIVE FirstMatch(_, _, _)
FirstMatch(lower, words, k) ==
    IF k > Len(words) THEN 0
    ELSE IF IndexOf(lower, ToLowerCase(words[k])) # -1 THEN k
    ELSE FirstMatch(lower, words, k + 1)

\* cmd after the wake-word loops (both branches strip the same way)
StripWakeWord(lower, words) ==
    LET k == FirstMatch(lower, words, 1)
    IN  IF k = 0 THEN lower
        ELSE Trim(Substring(lower, IndexOf(lower, ToLowerCase(words[k])) + Len(words[k])))

\* variant: every transcription counts as addressed
WakeWordFound_Always(lower, words, wakeSoundDetected) == TRUE

\* variant: a match is required even after a wake sound
WakeWordFound_MatchRequired(lower, words, wakeSoundDetected) ==
    FirstMatch(lower, words, 1) # 0

WakeWordFound(lower, words, wakeSoundDetected) ==
    wakeSoundDetected \/ FirstMatch(lower, words, 1) # 0

\* the trigger is cleared after a result, under `if (wakeWordFound)`
ClearsTrigger(wakeWordFound, wakeSoundDetected) == wakeWordFound

\* what _parse dispatches and whether it clears the trigger
Parse(raw, wakeSoundDetected, cfg) ==
    LET lower == ToLowerCase(raw)
        found == WakeWordFound(lower, cfg.wakewords, wakeSoundDetected)
        cmd   == StripWakeWord(lower, cfg.wakewords)
        clean == IF cfg.cleanup THEN Cleanup(cmd) ELSE cmd
    IN  IF ~found
        THEN [ event |-> Event("speechdiscarded",
                               IF cfg.debugWakeSound THEN Raw(raw) ELSE NoWakeWordDetected),
               clear |-> FALSE ]
        ELSE [ event |-> Event("result",
                               [ text     |-> ToUpperCase(clean),
                                 original |-> raw,
                                 viaSound |-> wakeSoundDetected ]),
               clear |-> ClearsTrigger(found, wakeSoundDetected) ]

----------------------------------------------------------------------------
(* Segments: one record per audio buffer handed to _handleSpeech.  The locals *)
(* of a run (audio, startSync, the pending timer) live until the run stops   *)
(* using them; what a finished run leaves behind is what it dispatched.      *)

Segs == 1..NumSeg

IdleSeg ==
    [ pc        |-> "idle",   \* "idle", "wait" (asleep in the sync loop), "asr", "done"
      len       |-> 0,        \* audio.length
      startedAt |-> Null,     \* Date.now() at this segment's own speechstart
      startSync |-> Null,     \* const startSync
      due       |-> Null,     \* when the pending 50ms timer is due
      viaSound  |-> FALSE,    \* the wakeSoundDetected argument of _transcribeAndParse
      trim      |-> 0,        \* leading samples sliced off the audio given to ASR
      trigger   |-> Null,     \* the trigger timestamp that put the run in session
      asrCalls  |-> 0,        \* invocations of this.asr for this buffer
      event     |-> NoEvent,  \* the last result / speechdiscarded / error of this run
      events    |-> 0,        \* how many such events this run dispatched
      cancelled |-> FALSE ]   \* destroy() was called while this run was in its wait

\* a run that ends: its locals are gone; a sound-triggered result stays
\* attributed to its trigger
Finished(r, ev) ==
    [IdleSeg EXCEPT !.pc = "done", !.event = ev, !.events = r.events + 1,
                    !.asrCalls = r.asrCalls, !.cancelled = r.cancelled,
                    !.trigger = IF ev.type = "result" THEN r.trigger ELSE Null]

\* Math.floor((offsetMs / 1000) * 16000)
TrimSamples(offsetMs) == (offsetMs * SampleRate) \div 1000

\* the loop's two early exits (lines 192-193)
TriggerAfterStart == wakeSoundDetectedTime # Null /\ wakeSoundDetectedTime > speechStartTime
WindowClosed == wakeSoundDetectedTime # Null
                /\ now - wakeSoundDetectedTime > config.wakesoundDelay
LoopBreaks == TriggerAfterStart \/ WindowClosed

\* (variant: a ceiling of 500ms)
WithinCeiling_Short(startSync) == now - startSync < MaxSyncWait - 100
\* while (Date.now() - startSync < maxSyncWait)
WithinCeiling(startSync) == now - startSync < MaxSyncWait

\* (variant: a trigger exactly wakesoundDelay old still counts)
InSession_Inclusive == wakeSoundDetectedTime # Null
                       /\ now - wakeSoundDetectedTime <= config.wakesoundDelay
\* const inSession = timeSinceWakeSound < this.config.wakesoundDelay
InSession == wakeSoundDetectedTime # Null
             /\ now - wakeSoundDetectedTime < config.wakesoundDelay

\* (variant: slices whenever the buffer is at least as long as the offset)
TrimFor_AllowEmpty(len) ==
    IF wakeSoundDetectedTime >= speechStartTime
       /\ len >= TrimSamples(wakeSoundDetectedTime - speechStartTime)
    THEN TrimSamples(wakeSoundDetectedTime - speechStartTime)
    ELSE 0
\* the leading samples sliced off an in-session buffer (lines 208-218)
TrimFor(len) ==
    IF wakeSoundDetectedTime >= speechStartTime
       /\ len > TrimSamples(wakeSoundDetectedTime - speechStartTime)
    THEN TrimSamples(wakeSoundDetectedTime - speechStartTime)
    ELSE 0

\* (variant: the test of requireWakeSound inverted)
DecideOutOfSession_Inverted(r) ==
    IF config.requireWakeSound
    THEN [r EXCEPT !.pc = "asr", !.viaSound = FALSE, !.asrCalls = @ + 1]
    ELSE Finished(r, Event("speechdiscarded", WaitingForWakeSound))
\* (variant: requireWakeSound ignored)
DecideOutOfSession_AlwaysTranscribe(r) ==
    [r EXCEPT !.pc = "asr", !.viaSound = FALSE, !.asrCalls = @ + 1]
\* (variant: the waiting-for-wake-sound discard is not dispatched)
DecideOutOfSession_Silent(r) ==
    IF ~config.requireWakeSound
    THEN [r EXCEPT !.pc = "asr", !.viaSound = FALSE, !.asrCalls = @ + 1]
    ELSE [IdleSeg EXCEPT !.pc = "done"]
\* the else-branches of lines 221-228
DecideOutOfSession(r) ==
    IF ~config.requireWakeSound
    THEN [r EXCEPT !.pc = "asr", !.viaSound = FALSE, !.asrCalls = @ + 1]
    ELSE Finished(r, Event("speechdiscarded", WaitingForWakeSound))

\* lines 198-228: the decision taken when the loop is left
Decide(r) ==
    LET d == [r EXCEPT !.startSync = Null, !.due = Null, !.startedAt = Null]
    IN  IF InSession
        THEN [d EXCEPT !.pc = "asr", !.viaSound = TRUE, !.trim = TrimFor(r.len),
                       !.trigger = wakeSoundDetectedTime, !.asrCalls = @ + 1]
        ELSE DecideOutOfSession(d)

\* one pass of the while loop: leave it and decide, or sleep 50ms
LoopPass(r) ==
    IF WithinCeiling(r.startSync) /\ ~LoopBreaks
    THEN [r EXCEPT !.pc = "wait", !.due = now + PollInterval]
    ELSE Decide(r)

\* (variant: the length test off by one)
TooShort_OffByOne(len) == len < MinSamples - 1
\* if (audio.length < 2000)
TooShort(len) == len < MinSamples

\* _handleSpeech(audio) up to its first suspension
HandleSpeech(r) ==
    IF TooShort(r.len)
    THEN Finished(r, Event("speechdiscarded", AudioTooShort))
    ELSE LoopPass([r EXCEPT !.startSync = now])

----------------------------------------------------------------------------
(* The state machine *)

Init ==
    /\ now = StartTime
    /\ config \in Configs
    /\ wakeSoundDetectedTime = Null
    /\ lastWakeSoundScore = 0
    /\ speechStartTime = 0
    /\ listening \in BOOLEAN          \* a wakesoundURL was configured or not
    /\ vadState = "idle"
    /\ seg = [s \in Segs |-> IdleSeg]
    /\ nextSeg = 1
    /\ utterances \in 1..NumSeg
    /\ utterances > 1 => config \in OverlapConfigs
    /\ wakesound = NoEvent
    /\ destroyed = FALSE

\* time passes; a timer that is due fires before the clock moves on
Tick ==
    /\ now < StartTime + MaxTicks * ClockStep
    /\ \A s \in Segs : seg[s].pc = "wait" => seg[s].due > now
    /\ now' = now + ClockStep
    /\ wakesound' = NoEvent
    /\ UNCHANGED <<config, utterances, wakeSoundDetectedTime, lastWakeSoundScore, speechStartTime,
                   listening, vadState, seg, nextSeg, destroyed>>

\* (variant: a score equal to the threshold qualifies)
Qualifies_AtThreshold(score) == score >= config.wakesoundThreshold /\ score < ScoreCeiling
\* targetScore > this.config.wakesoundThreshold && targetScore < 1.62
Qualifies(score) == score > config.wakesoundThreshold /\ score < ScoreCeiling

\* the recognizer.listen callback (lines 151-174)
OnWakeScore(score) ==
    /\ listening
    /\ IF Qualifies(score)
       THEN /\ wakeSoundDetectedTime' = now
            /\ lastWakeSoundScore' = score
            /\ wakesound' = Event("wakesound", [score |-> score, timestamp |-> now])
       ELSE /\ wakesound' = NoEvent
            /\ UNCHANGED <<wakeSoundDetectedTime, lastWakeSoundScore>>
    /\ UNCHANGED <<now, config, utterances, speechStartTime, listening, vadState, seg, nextSeg,
                   destroyed>>

\* onSpeechStart (lines 69-72)
OnSpeechStart ==
    /\ vadState = "idle"
    /\ nextSeg <= utterances
    /\ speechStartTime' = now
    /\ vadState' = "speaking"
    /\ wakesound' = NoEvent
    /\ UNCHANGED <<now, config, utterances, wakeSoundDetectedTime, lastWakeSoundScore, listening,
                   seg, nextSeg, destroyed>>

\* onVADMisfire (lines 73-75)
OnVADMisfire ==
    /\ vadState = "speaking"
    /\ vadState' = "idle"
    /\ wakesound' = NoEvent
    /\ UNCHANGED <<now, config, utterances, wakeSoundDetectedTime, lastWakeSoundScore,
                   speechStartTime, listening, seg, nextSeg, destroyed>>

\* onSpeechEnd (lines 76-79): speechend, then _handleSpeech up to its first await.
\* The VAD ends a segment only after its redemption frames (line 68), so time has
\* passed since the speechstart.
OnSpeechEnd(len) ==
    /\ vadState = "speaking"
    /\ now > speechStartTime
    /\ seg' = [seg EXCEPT ![nextSeg] =
                  HandleSpeech([IdleSeg EXCEPT !.len = len, !.startedAt = speechStartTime])]
    /\ wakesound' = NoEvent
    /\ nextSeg' = nextSeg + 1
    /\ vadState' = "idle"
    /\ UNCHANGED <<now, config, utterances, wakeSoundDetectedTime, lastWakeSoundScore,
                   speechStartTime, listening, destroyed>>

\* the setTimeout of line 195 fires and the loop runs its next pass
Poll(s) ==
    /\ seg[s].pc = "wait"
    /\ now >= seg[s].due
    /\ seg' = [seg EXCEPT ![s] = LoopPass(@)]
    /\ wakesound' = NoEvent
    /\ UNCHANGED <<now, config, utterances, wakeSoundDetectedTime, lastWakeSoundScore,
                   speechStartTime, listening, vadState, nextSeg, destroyed>>

\* await this.asr(audio) resolves with { text } (lines 233-238)
AsrReturn(s, text) ==
    /\ seg[s].pc = "asr"
    /\ IF text = <<>>
       THEN /\ seg' = [seg EXCEPT ![s] =
                          Finished(@, Event("speechdiscarded", EmptyRecognition))]
            /\ UNCHANGED wakeSoundDetectedTime
       ELSE LET p == Parse(text, seg[s].viaSound, config)
            IN  /\ seg' = [seg EXCEPT ![s] = Finished(@, p.event)]
                /\ wakeSoundDetectedTime' =
                       IF p.clear THEN Null ELSE wakeSoundDetectedTime
    /\ wakesound' = NoEvent
    /\ UNCHANGED <<now, config, utterances, lastWakeSoundScore, speechStartTime, listening,
                   vadState, nextSeg, destroyed>>

\* (variant: the failure also clears the wake trigger)
AsrThrow_ClearsTrigger(s) ==
    /\ seg[s].pc = "asr"
    /\ seg' = [seg EXCEPT ![s] = Finished(@, Event("error", AsrFail))]
    /\ wakeSoundDetectedTime' = Null
    /\ wakesound' = NoEvent
    /\ UNCHANGED <<now, config, utterances, lastWakeSoundScore,
                   speechStartTime, listening, vadState, nextSeg, destroyed>>

\* await this.asr(audio) rejects (lines 239-242)
AsrThrow(s) ==
    /\ seg[s].pc = "asr"
    /\ seg' = [seg EXCEPT ![s] = Finished(@, Event("error", AsrFail))]
    /\ wakesound' = NoEvent
    /\ UNCHANGED <<now, config, utterances, wakeSoundDetectedTime, lastWakeSoundScore,
                   speechStartTime, listening, vadState, nextSeg, destroyed>>

\* destroy() (lines 292-306): stops the recognizer and pauses the VAD; the runs of
\* _handleSpeech in flight are not told
Destroy ==
    /\ ~destroyed
    /\ destroyed' = TRUE
    /\ listening' = FALSE
    /\ vadState' = "paused"
    /\ seg' = [s \in Segs |-> IF seg[s].pc = "wait"
                              THEN [seg[s] EXCEPT !.cancelled = TRUE] ELSE seg[s]]
    /\ wakesound' = NoEvent
    /\ UNCHANGED <<now, config, utterances, wakeSoundDetectedTime, lastWakeSoundScore,
                   speechStartTime, nextSeg>>

Next ==
    \/ Tick
    \/ \E score \in Scores : OnWakeScore(score)
    \/ OnSpeechStart
    \/ OnVADMisfire
    \/ \E len \in AudioLengths : OnSpeechEnd(len)
    \/ \E s \in Segs : Poll(s)
    \/ \E s \in Segs, text \in AsrTexts : AsrReturn(s, text)
    \/ \E s \in Segs : AsrThrow(s)
    \/ Destroy

Spec == Init /\ [][Next]_vars

----------------------------------------------------------------------------
(* The command extractor on its own: the ASR call of one segment is in flight, *)
(* sound-triggered or not, and resolves with any transcription made of at most *)
(* MaxTokens tokens.                                                           *)

Tokens == { <<"o","k">>, <<"H","i">>, <<"g">>, <<" ">>, <<"\t">>, <<"!">>, <<"+">> }

RECURSIVE TextsOf(_)
TextsOf(n) == IF n = 0 THEN { <<>> }
              ELSE TextsOf(n - 1) \cup {t \o k : t \in TextsOf(n - 1), k \in Tokens}
ParseTexts == TextsOf(MaxTokens)

\* the configurations with every setting of the text options
TextConfigs == {c \in Configs : c.wakesoundThreshold = 80 /\ c.wakesoundDelay = 1000
                                  /\ ~c.requireWakeSound}

\* the run of segment 1 awaits this.asr: put in session at its speechend by a wake
\* sound heard one clock step into the utterance, or decided without a trigger
\* after the full wait
ParseInit ==
    /\ config \in TextConfigs
    /\ \E viaSound \in BOOLEAN :
          /\ now = IF viaSound THEN StartTime + ClockStep
                              ELSE StartTime + ClockStep + MaxSyncWait
          /\ wakeSoundDetectedTime = IF viaSound THEN StartTime + ClockStep ELSE Null
          /\ lastWakeSoundScore = IF viaSound THEN 161 ELSE 0
          /\ seg = [s \in Segs |->
                      IF s = 1
                      THEN [IdleSeg EXCEPT
                               !.pc = "asr", !.len = 3200, !.viaSound = viaSound,
                               !.asrCalls = 1,
                               !.trim = IF viaSound THEN TrimSamples(ClockStep) ELSE 0,
                               !.trigger = IF viaSound THEN StartTime + ClockStep ELSE Null]
                      ELSE IdleSeg]
    /\ speechStartTime = StartTime
    /\ listening = TRUE
    /\ vadState = "idle"
    /\ nextSeg = 2
    /\ utterances = 1
    /\ wakesound = NoEvent
    /\ destroyed = FALSE

ParseReturn == \E text \in ParseTexts : AsrReturn(1, text)

ParseSpec == ParseInit /\ [][ParseReturn]_vars

----------------------------------------------------------------------------
(* The pipeline with its scheduling.  The event loop runs every timer that is  *)
(* due and the clock does not stop while a run sleeps in its wait; the ASR     *)
(* call of a run that awaits it settles, by resolving or by rejecting.         *)

\* the configurations explored with scheduling: both settings of requireWakeSound
LiveConfigs == {c \in OverlapConfigs : c.wakesoundDelay = 200}

LiveInit == Init /\ config \in LiveConfigs /\ listening

\* time passes beyond the explored period while some run is still in its wait
TickOverrun ==
    /\ now >= StartTime + MaxTicks * ClockStep
    /\ \E s \in Segs : seg[s].pc = "wait"
    /\ \A s \in Segs : seg[s].pc = "wait" => seg[s].due > now
    /\ now' = now + ClockStep
    /\ wakesound' = NoEvent
    /\ UNCHANGED <<config, utterances, wakeSoundDetectedTime, lastWakeSoundScore, speechStartTime,
                   listening, vadState, seg, nextSeg, destroyed>>

\* the promise returned by this.asr settles
AsrSettles(s) == (\E text \in AsrTexts : AsrReturn(s, text)) \/ AsrThrow(s)

\* the inputs explored with scheduling: a score that qualifies and one that does
\* not, a buffer that is too short and one that is not
LiveScores == {80, 161}
LiveLengths == {1999, 2000}

\* new sounds and utterances begin during the first LiveTicks clock steps
InputsOpen == now <= StartTime + LiveTicks * ClockStep

LiveNext ==
    \/ Tick
    \/ TickOverrun
    \/ InputsOpen /\ \E score \in LiveScores : OnWakeScore(score)
    \/ InputsOpen /\ OnSpeechStart
    \/ OnVADMisfire
    \/ \E len \in LiveLengths : OnSpeechEnd(len)
    \/ \E s \in Segs : Poll(s)
    \/ \E s \in Segs : AsrSettles(s)
    \/ Destroy

LiveSpec ==
    /\ LiveInit
    /\ [][LiveNext]_vars
    /\ WF_vars(Tick)
    /\ WF_vars(TickOverrun)
    /\ \A s \in Segs : WF_vars(Poll(s))
    /\ \A s \in Segs : WF_vars(AsrSettles(s))

----------------------------------------------------------------------------
(* Steps the claims speak about *)

\* the step in which the run of segment s leaves the sync loop (or skips it) and
\* takes its decision, for a buffer of len samples
DecisionStep(s, len) ==
    /\ seg[s].pc \in {"idle", "wait"}
    /\ seg'[s].pc \in {"asr", "done"}
    /\ ~TooShort(len)
    /\ \/ seg[s].pc = "wait" /\ len = seg[s].len /\ Poll(s)
       \/ seg[s].pc = "idle" /\ s = nextSeg /\ OnSpeechEnd(len)

\* Date.now() at the speechstart of the segment whose run is deciding
OwnStart(s) == IF seg[s].pc = "wait" THEN seg[s].startedAt ELSE speechStartTime

TriggerExists == wakeSoundDetectedTime # Null

\* the segment's duration in ms: its samples at 16 kHz
DurationMs(len) == (len * 1000) \div SampleRate

----------------------------------------------------------------------------
(* C1: a segment of fewer than 2000 samples is discarded in the very step that *)
(* delivers it, as speechdiscarded "(Audio Too Short)", whatever the trigger   *)
(* and the configuration: the run never sleeps in the sync loop, never calls   *)
(* ASR, and the wake trigger is as it was.                                     *)
C1_TooShortDiscarded ==
    [][\A len \in AudioLengths :
         (len < 2000 /\ OnSpeechEnd(len)) =>
            /\ seg'[nextSeg].pc = "done"
            /\ seg'[nextSeg].event = Event("speechdiscarded", Lit("(Audio Too Short)"))
            /\ seg'[nextSeg].events = 1
            /\ seg'[nextSeg].asrCalls = 0
            /\ seg'[nextSeg].startSync = Null
            /\ wakeSoundDetectedTime' = wakeSoundDetectedTime
            /\ lastWakeSoundScore' = lastWakeSoundScore]_vars

\* a too-short segment was discarded while a fresh trigger was set
C1_Witness ==
    \E s \in Segs :
        /\ seg[s].event = Event("speechdiscarded", AudioTooShort)
        /\ wakeSoundDetectedTime = now
        /\ config.wakesoundDelay > 0

----------------------------------------------------------------------------
----------------------------------------------------------------------------
(* C3 as stated: one sound trigger authorizes one command.  However the        *)
(* callbacks interleave, no two segments get a result with viaSound = true     *)
(* from the same wake-sound event, that is with no qualifying wake-sound event *)
(* between the one that put the first in session and the one that put the      *)
(* second in session.                                                          *)
C3_OneCommandPerTrigger ==
    \A s, t \in Segs :
        ( /\ s # t
          /\ seg[s].event.type = "result" /\ seg[s].event.detail.viaSound
          /\ seg[t].event.type = "result" /\ seg[t].event.detail.viaSound ) =>
            seg[s].trigger # seg[t].trigger

----------------------------------------------------------------------------
(* C4 as stated: the wake trigger changes only when a qualifying wake-sound    *)
(* score sets it, or when a result with viaSound = true clears it to absent.   *)
C4_TriggerChangesOnlyTwoWays ==
    [][wakeSoundDetectedTime' # wakeSoundDetectedTime =>
         \/ /\ wakeSoundDetectedTime' = now
            /\ \E score \in Scores :
                  /\ score > config.wakesoundThreshold /\ score < 162
                  /\ OnWakeScore(score)
         \/ /\ wakeSoundDetectedTime' = Null
            /\ \E s \in Segs :
                  /\ seg[s].pc = "asr" /\ seg[s].viaSound
                  /\ seg'[s].event.type = "result"]_vars

----------------------------------------------------------------------------
(* C5 as stated: a run that was in its synchronization wait when destroy() was *)
(* called dispatches no result, speechdiscarded or error event afterwards and  *)
(* does not invoke ASR.                                                        *)
C5_WaitCancelledByDestroy ==
    \A s \in Segs : seg[s].cancelled => seg[s].events = 0 /\ seg[s].asrCalls = 0

----------------------------------------------------------------------------
(* C6: when the run of a segment of at least 2000 samples decides while no     *)
(* trigger exists and requireWakeSound is false, ASR is invoked on the whole   *)
(* buffer (nothing sliced off) with viaSound = false, and a result that        *)
(* follows carries viaSound = false.                                           *)
C6_NoTriggerTranscribesWhole ==
    [][\A s \in Segs :
         /\ \A len \in AudioLengths :
               ( /\ DecisionStep(s, len)
                 /\ wakeSoundDetectedTime = Null
                 /\ ~config.requireWakeSound ) =>
                  /\ seg'[s].pc = "asr"
                  /\ seg'[s].asrCalls = 1
                  /\ seg'[s].len = len
                  /\ seg'[s].trim = 0
                  /\ ~seg'[s].viaSound
         /\ ( seg[s].pc = "asr" /\ ~seg[s].viaSound /\ seg'[s].event.type = "result" ) =>
               ~seg'[s].event.detail.viaSound]_vars

\* after the full wait no trigger had appeared and the whole buffer went to ASR
C6_Witness ==
    \E s \in Segs :
        /\ listening /\ wakeSoundDetectedTime = Null /\ ~config.requireWakeSound
        /\ seg[s].pc = "asr" /\ ~seg[s].viaSound
        /\ seg[s].len = 3200 /\ seg[s].trim = 0

----------------------------------------------------------------------------
(* C7: when the run of a segment of at least 2000 samples decides while no     *)
(* trigger exists and requireWakeSound is true, it dispatches speechdiscarded  *)
(* "(Waiting for Wake Sound)" and ends: ASR was not and is never invoked for   *)
(* the segment and no other event follows for it.                              *)
C7_NoTriggerRequiredDiscards ==
    [][\A s \in Segs :
         /\ \A len \in AudioLengths :
               ( /\ DecisionStep(s, len)
                 /\ wakeSoundDetectedTime = Null
                 /\ config.requireWakeSound ) =>
                  /\ seg'[s].pc = "done"
                  /\ seg'[s].event = Event("speechdiscarded", Lit("(Waiting for Wake Sound)"))
                  /\ seg'[s].events = 1
                  /\ seg'[s].asrCalls = 0
         /\ seg[s].event = Event("speechdiscarded", Lit("(Waiting for Wake Sound)")) =>
               seg'[s] = seg[s]]_vars

\* a segment was discarded for want of a wake sound while the recognizer listened
C7_Witness ==
    \E s \in Segs :
        /\ listening /\ wakeSoundDetectedTime = Null /\ config.requireWakeSound
        /\ seg[s].event = Event("speechdiscarded", WaitingForWakeSound)
        /\ seg[s].asrCalls = 0

----------------------------------------------------------------------------
(* C8: a wake-sound score sets the tracker's timestamp and score and           *)
(* dispatches a wakesound event exactly when it is strictly above              *)
(* wakesoundThreshold and strictly below 1.62; the event carries the score and *)
(* the timestamp just recorded.  Any other score leaves the timestamp and the  *)
(* last score as they were and dispatches no wakesound event.                  *)
C8_ScoreUpdatesTracker ==
    [][\A score \in Scores :
         OnWakeScore(score) =>
            IF score > config.wakesoundThreshold /\ score < 162
            THEN /\ wakeSoundDetectedTime' = now
                 /\ lastWakeSoundScore' = score
                 /\ wakesound'.type = "wakesound"
                 /\ wakesound'.detail.score = score
                 /\ wakesound'.detail.timestamp = wakeSoundDetectedTime'
            ELSE /\ wakeSoundDetectedTime' = wakeSoundDetectedTime
                 /\ lastWakeSoundScore' = lastWakeSoundScore
                 /\ wakesound'.type # "wakesound"]_vars

\* a qualifying score has just replaced an older trigger
C8_Witness ==
    /\ wakesound.type = "wakesound"
    /\ wakesound.detail.timestamp = wakeSoundDetectedTime
    /\ wakesound.detail.score = lastWakeSoundScore
    /\ wakeSoundDetectedTime = now
    /\ now > StartTime

----------------------------------------------------------------------------
(* C9: with wakesoundDelay = 0 no segment is ever sound-triggered: no run      *)
(* hands its buffer to ASR with viaSound = true and no result carries          *)
(* viaSound = true; and with requireWakeSound = true no segment reaches ASR at *)
(* all: a run that has ended was discarded as too short or as waiting for the  *)
(* wake sound.                                                                 *)
C9_ZeroDelayNeverInSession ==
    config.wakesoundDelay = 0 =>
        \A s \in Segs :
            /\ ~seg[s].viaSound
            /\ seg[s].event.type = "result" => ~seg[s].event.detail.viaSound
            /\ config.requireWakeSound =>
                  /\ seg[s].asrCalls = 0
                  /\ seg[s].pc = "done" =>
                        seg[s].event \in { Event("speechdiscarded", Lit("(Audio Too Short)")),
                                           Event("speechdiscarded", Lit("(Waiting for Wake Sound)")) }

\* a segment was discarded although the trigger was set in the very millisecond of
\* the decision
C9_Witness ==
    /\ config.wakesoundDelay = 0 /\ config.requireWakeSound
    /\ wakeSoundDetectedTime = now
    /\ \E s \in Segs : seg[s].event = Event("speechdiscarded", WaitingForWakeSound)

----------------------------------------------------------------------------
(* Steps of _parse on a transcription that came without a sound trigger *)

\* the ASR call of segment s resolves with a non-empty text that is parsed with
\* wakeSoundDetected = false
TextOnlyParseStep(s, text) ==
    /\ seg[s].pc = "asr"
    /\ ~seg[s].viaSound
    /\ text # <<>>
    /\ AsrReturn(s, text)

\* the command the extractor would cut out of lower after an occurrence of word
CommandAfter(lower, word, matched) ==
    Trim(Substring(lower, IndexOf(lower, matched) + Len(word)))

\* the text field of a result: cleaned if configured, then upper-cased
ResultText(cmd) == ToUpperCase(IF config.cleanup THEN Cleanup(cmd) ELSE cmd)

\* the speechdiscarded event of a transcription without a wake word
NoWakeWordEvent(text) ==
    Event("speechdiscarded", IF config.debugWakeSound THEN Raw(text) ELSE NoWakeWordDetected)

----------------------------------------------------------------------------
(* C10 as stated: when a transcription is parsed with viaSound = false, a      *)
(* result is dispatched only if some configured wake word, as configured,      *)
(* occurs in the lower-cased text; if none occurs the outcome is the           *)
(* no-wake-word speechdiscarded, no result, and the trigger is unchanged; if   *)
(* one occurs, the result's command is the text after the first configured     *)
(* word that occurs, trimmed.                                                  *)
C10_ConfiguredWordInLowerText ==
    [][\A s \in Segs, text \in AsrTexts :
         TextOnlyParseStep(s, text) =>
            LET lower == ToLowerCase(text)
                words == config.wakewords
                hits  == {k \in 1..Len(words) : IndexOf(lower, words[k]) # -1}
            IN  /\ seg'[s].event.type = "result" => hits # {}
                /\ hits = {} =>
                      /\ seg'[s].event = NoWakeWordEvent(text)
                      /\ seg'[s].events = seg[s].events + 1
                      /\ wakeSoundDetectedTime' = wakeSoundDetectedTime
                /\ hits # {} =>
                      LET k == CHOOSE h \in hits : \A j \in hits : h <= j
                      IN  /\ seg'[s].event.type = "result"
                          /\ seg'[s].event.detail.text =
                                 ResultText(CommandAfter(lower, words[k], words[k]))]_vars

(* C10, amended: when a transcription is parsed with viaSound = false, a       *)
(* result is dispatched if and only if some configured wake word, lower-cased, *)
(* occurs in the lower-cased text.  If none does, exactly one event is         *)
(* dispatched, speechdiscarded "(No Wake Word Detected)" (the raw text as      *)
(* detail in debug mode), and the wake trigger is unchanged.  If one does, the *)
(* result carries viaSound = false, the raw text as original, and as text the  *)
(* lower-cased text after the first occurrence of the first configured word    *)
(* (in list order) that occurs, trimmed, cleaned if cleanup is on, and         *)
(* upper-cased.                                                                *)
C10_LowerCasedWordInLowerText ==
    [][\A s \in Segs, text \in AsrTexts :
         TextOnlyParseStep(s, text) =>
            LET lower == ToLowerCase(text)
                words == config.wakewords
                hits  == {k \in 1..Len(words) :
                              IndexOf(lower, ToLowerCase(words[k])) # -1}
            IN  /\ seg'[s].event.type = "result" <=> hits # {}
                /\ seg'[s].events = seg[s].events + 1
                /\ hits = {} =>
                      /\ seg'[s].event = NoWakeWordEvent(text)
                      /\ wakeSoundDetectedTime' = wakeSoundDetectedTime
                /\ hits # {} =>
                      LET k == CHOOSE h \in hits : \A j \in hits : h <= j
                      IN  seg'[s].event =
                            Event("result",
                                  [ text     |-> ResultText(CommandAfter(
                                                     lower, words[k], ToLowerCase(words[k]))),
                                    original |-> text,
                                    viaSound |-> FALSE ])]_vars

\* a wake word configured in mixed case was matched in a transcription that came
\* without a sound trigger
C10_Witness ==
    /\ config.wakewords = << <<"O","k">> >>
    /\ \E s \in Segs :
          /\ seg[s].event.type = "result"
          /\ ~seg[s].event.detail.viaSound
          /\ seg[s].event.detail.text \in { <<"G","O">>, <<"G","O","!">> }

----------------------------------------------------------------------------
(* Results of the command extractor *)

\* the ASR call of segment s resolves with a non-empty text: the run ends, and
\* neither with the error of a rejected call nor as an empty recognition
NonEmptyParsed(s) ==
    /\ seg[s].pc = "asr"
    /\ seg'[s].pc = "done"
    /\ seg'[s].event # Event("error", AsrFail)
    /\ seg'[s].event # Event("speechdiscarded", EmptyRecognition)

\* the command of a sound-triggered transcription: the lower-cased text after the
\* first configured word (lower-cased) that occurs in it, trimmed, or all of it
SoundCommand(text) ==
    LET lower == ToLowerCase(text)
        words == config.wakewords
        hits  == {k \in 1..Len(words) : IndexOf(lower, ToLowerCase(words[k])) # -1}
    IN  IF hits = {} THEN lower
        ELSE LET k == CHOOSE h \in hits : \A j \in hits : h <= j
             IN  CommandAfter(lower, words[k], ToLowerCase(words[k]))

\* the result event of segment s, if that is how its run ended
HasResult(s) == seg[s].event.type = "result"
\* the lower-cased transcription behind the result of segment s
LowerOf(s) == ToLowerCase(seg[s].event.detail.original)
\* the configured words, lower-cased, that occur in the transcription of segment s
Hits(s) == {k \in 1..Len(config.wakewords) :
                IndexOf(LowerOf(s), ToLowerCase(config.wakewords[k])) # -1}

----------------------------------------------------------------------------
(* C11: a non-empty transcription parsed with viaSound = true always ends in a *)
(* result, whether or not a wake word occurs in it.  If a configured word      *)
(* (lower-cased) occurs, the command is the lower-cased text after it,         *)
(* trimmed; if none occurs, the command is the whole lower-cased text.  The    *)
(* result's text is the command, cleaned if cleanup is on, in upper case.      *)
C11_SoundTriggeredAlwaysResult ==
    [][\A s \in Segs :
         (seg[s].pc = "asr" /\ seg[s].viaSound /\ NonEmptyParsed(s)) =>
            /\ seg'[s].event.type = "result"
            /\ seg'[s].events = seg[s].events + 1
            /\ seg'[s].event.detail.viaSound
            /\ seg'[s].event.detail.original # <<>>
            /\ \E text \in ParseTexts \cup AsrTexts :
                  /\ text = seg'[s].event.detail.original
                  /\ seg'[s].event.detail.text = ResultText(SoundCommand(text))]_vars

\* a sound-triggered transcription without any wake word became a result that
\* carries the whole text, spaces included
C11_Witness ==
    /\ HasResult(1)
    /\ seg[1].event.detail.viaSound
    /\ Len(config.wakewords) = 2
    /\ Hits(1) = {}
    /\ ~config.cleanup
    /\ seg[1].event.detail.text = <<" ", "G", "+">>

----------------------------------------------------------------------------
(* C12: matching goes by configured order, not by position in the text.  When  *)
(* several configured wake words occur in a transcription that became a        *)
(* result, the word stripped is the one that comes first in the configured     *)
(* list, and the command is what follows the first occurrence of that word,    *)
(* even if another configured word occurs earlier in the text.                 *)
C12_ConfiguredOrderWins ==
    \A s \in Segs :
        (HasResult(s) /\ Cardinality(Hits(s)) > 1) =>
            LET k    == CHOOSE h \in Hits(s) : \A j \in Hits(s) : h <= j
                word == config.wakewords[k]
            IN  seg[s].event.detail.text =
                    ResultText(CommandAfter(LowerOf(s), word, ToLowerCase(word)))

\* both configured words occur, the second-listed one earlier in the text, and
\* the command is what follows the first-listed one
C12_Witness ==
    /\ config.wakewords = << <<"o","k">>, <<"h","i">> >>
    /\ HasResult(1)
    /\ seg[1].event.detail.original = <<"H","i","o","k","g">>
    /\ IndexOf(LowerOf(1), <<"h","i">>) < IndexOf(LowerOf(1), <<"o","k">>)
    /\ seg[1].event.detail.text = <<"G">>

----------------------------------------------------------------------------
(* C13: the cleanup is idempotent.  For every command the extractor cuts out   *)
(* of a transcription, cleaning the cleaned command again changes nothing; and *)
(* cleaning the text of a result dispatched with cleanup on gives that text.   *)
C13_CleanupIdempotent ==
    \A s \in Segs :
        HasResult(s) =>
            LET cmd == StripWakeWord(LowerOf(s), config.wakewords)
            IN  /\ Cleanup(Cleanup(cmd)) = Cleanup(cmd)
                /\ config.cleanup =>
                      /\ seg[s].event.detail.text = ToUpperCase(Cleanup(cmd))
                      /\ Cleanup(seg[s].event.detail.text) = seg[s].event.detail.text

\* a result whose command the cleanup changed: a symbol replaced, a run of
\* whitespace collapsed and the ends trimmed
C13_Witness ==
    /\ config.cleanup
    /\ HasResult(1)
    /\ seg[1].event.detail.original = <<"!", "g", "\t">>
    /\ seg[1].event.detail.text = <<"G">>

----------------------------------------------------------------------------
(* Steps of a failing ASR call and of the synchronization wait *)

\* the ASR call of segment s rejects
AsrFailsFor(s) ==
    /\ seg[s].pc = "asr"
    /\ seg'[s].event = Event("error", AsrFail)

\* some run has ended with the error event
SomeAsrFailed == \E s \in Segs : seg[s].event = Event("error", AsrFail)

\* Date.now() when the run of segment s entered its wait, read at its decision
SyncStart(s) == IF seg[s].pc = "wait" THEN seg[s].startSync ELSE now

----------------------------------------------------------------------------
(* C14: when the ASR call of a segment rejects, the run dispatches the error   *)
(* event as its only event, the wake trigger, the last score, the VAD and the  *)
(* recognizer are as they were, and so is every other segment's run; a run     *)
(* that has ended never dispatches anything more.  After a failure a new       *)
(* segment is still classified by the same rule: too short is discarded, in    *)
(* session goes to ASR with viaSound = true, out of session goes to ASR with   *)
(* viaSound = false or is discarded if requireWakeSound is set.                *)
C14_AsrFailureIsLocal ==
    [][\A s \in Segs :
         /\ AsrFailsFor(s) =>
               /\ seg'[s].pc = "done"
               /\ seg'[s].events = seg[s].events + 1
               /\ seg'[s].events = 1
               /\ wakeSoundDetectedTime' = wakeSoundDetectedTime
               /\ lastWakeSoundScore' = lastWakeSoundScore
               /\ vadState' = vadState /\ listening' = listening
               /\ speechStartTime' = speechStartTime
               /\ \A o \in Segs \ {s} : seg'[o] = seg[o]
         /\ seg[s].pc = "done" => seg'[s] = seg[s]
         /\ \A len \in AudioLengths :
               (SomeAsrFailed /\ seg[s].pc = "idle" /\ s = nextSeg /\ OnSpeechEnd(len)) =>
                  /\ len < 2000 =>
                        seg'[s].event = Event("speechdiscarded", AudioTooShort)
                  /\ (len >= 2000 /\ seg'[s].pc = "asr") =>
                        /\ seg'[s].viaSound = InSession
                        /\ InSession \/ ~config.requireWakeSound
                  /\ (len >= 2000 /\ seg'[s].pc = "done") =>
                        /\ ~InSession /\ config.requireWakeSound
                        /\ seg'[s].event = Event("speechdiscarded", WaitingForWakeSound)]_vars

\* the ASR call of the first segment failed while a trigger was set and the second
\* utterance was being spoken; the second segment then became a sound-triggered
\* command
C14_Witness ==
    /\ seg[1].event = Event("error", AsrFail)
    /\ HasResult(2)
    /\ seg[2].event.detail.viaSound
    /\ seg[2].trigger > StartTime

----------------------------------------------------------------------------
(* C15: a trigger recorded while an earlier segment is in ASR is not lost.     *)
(* When the run of a sound-triggered segment ends while the tracker holds a    *)
(* trigger newer than the one that put that run in session, and another        *)
(* segment is in its synchronization wait, the tracker still holds that newer  *)
(* trigger afterwards, for the waiting segment's next poll to read.            *)
C15_NewerTriggerNotLost ==
    [][\A s \in Segs :
         ( /\ seg[s].pc = "asr" /\ seg[s].viaSound
           /\ seg'[s].pc = "done"
           /\ TriggerExists
           /\ wakeSoundDetectedTime > seg[s].trigger
           /\ \E o \in Segs : seg[o].pc = "wait" )
         => wakeSoundDetectedTime' = wakeSoundDetectedTime]_vars

----------------------------------------------------------------------------
(* C16: the start time that the wait of a segment tests the trigger against is *)
(* the time of that segment's own speechstart.  A poll of a waiting segment    *)
(* leaves the loop exactly when the ceiling is reached, or a trigger exists    *)
(* that is later than the segment's own speechstart or older than              *)
(* wakesoundDelay; otherwise it sleeps again.                                  *)
C16_WaitTestsOwnStart ==
    [][\A s \in Segs :
         (seg[s].pc = "wait" /\ Poll(s)) =>
            ( seg'[s].pc # "wait" <=>
                \/ now - seg[s].startSync >= MaxSyncWait
                \/ /\ TriggerExists
                   /\ \/ wakeSoundDetectedTime > seg[s].startedAt
                      \/ now - wakeSoundDetectedTime > config.wakesoundDelay )]_vars

----------------------------------------------------------------------------
----------------------------------------------------------------------------
(* C18: the wait does not close a window that was open at speechend.  When a   *)
(* run decides while the tracker holds a trigger that is not later than the    *)
(* run's speechend and was less than wakesoundDelay old at that speechend,     *)
(* the segment goes to ASR with viaSound = true.                               *)
C18_OpenWindowDecidedInSession ==
    [][\A s \in Segs, len \in AudioLengths :
         ( /\ DecisionStep(s, len)
           /\ TriggerExists
           /\ wakeSoundDetectedTime <= SyncStart(s)
           /\ SyncStart(s) - wakeSoundDetectedTime < config.wakesoundDelay )
         => /\ seg'[s].pc = "asr"
            /\ seg'[s].viaSound]_vars

----------------------------------------------------------------------------
(* C19: an in-session segment is trimmed only when the trigger is not earlier  *)
(* than the segment's own speechstart and the segment has strictly more        *)
(* samples than floor((trigger - start) / 1000 * 16000); then exactly that     *)
(* many leading samples are removed, otherwise none; what goes to ASR is       *)
(* never empty.                                                                *)
C19_TrimFromOwnStart ==
    [][\A s \in Segs, len \in AudioLengths :
         (DecisionStep(s, len) /\ seg'[s].viaSound) =>
            LET off == TrimSamples(wakeSoundDetectedTime - OwnStart(s))
            IN  /\ seg'[s].trim =
                      IF wakeSoundDetectedTime >= OwnStart(s) /\ len > off THEN off ELSE 0
                /\ seg'[s].trim < len]_vars

----------------------------------------------------------------------------
(* C20: every speechend yields exactly one outcome.  The run of a segment      *)
(* never dispatches more than one of result, speechdiscarded and error; a run  *)
(* that has ended has dispatched exactly one; and, the timers firing and the   *)
(* ASR call settling, every run that a speechend started does end, whatever    *)
(* wake-sound events, other segments and destroy() come in between.            *)
C20_ExactlyOneOutcome ==
    \A s \in Segs :
        /\ [](seg[s].events <= 1)
        /\ [](seg[s].pc = "done" =>
                /\ seg[s].events = 1
                /\ seg[s].event.type \in {"result", "speechdiscarded", "error"})
        /\ [](seg[s].pc # "done" => seg[s].events = 0 /\ seg[s].event = NoEvent)
        /\ (seg[s].pc # "idle") ~> (seg[s].pc = "done")

\* both runs have ended, one of them after destroy() was called during its wait,
\* with different outcomes
C20_Witness ==
    /\ seg[1].pc = "done" /\ seg[2].pc = "done"
    /\ seg[1].cancelled
    /\ seg[1].event.type = "error"
    /\ seg[2].event.type = "speechdiscarded"

====
